---- MODULE Spec2Model ----
(***************************************************************************)
(* The request admission gate and generation dispatcher of the FastAPI     *)
(* server in backend/app: auth.py (allowlist files), main.py (middleware   *)
(* and route handlers) and models.py (the AIModel provider).               *)
(*                                                                         *)
(* Strings are sequences of chunks: a chunk is a run of characters that    *)
(* the program never splits (a host name, an address, a key, one blank).   *)
(* Python's s.strip() and  x in s  are computed on these sequences.        *)
(***************************************************************************)
EXTENDS Integers, Sequences, FiniteSets, TLC

\* ------------------------------------------------------------------ bounds
\* An allowlist file has at most MaxLines lines.
MaxLines == 1

\* ----------------------------------------------------------------- strings
\* Whitespace chunks removed by str.strip(): a blank and the line terminator.
WS == {" ", "\n"}

RECURSIVE lstrip(_)
lstrip(s) == IF s # <<>> /\ Head(s) \in WS THEN lstrip(Tail(s)) ELSE s

RECURSIVE rstrip(_)
rstrip(s) == IF s # <<>> /\ s[Len(s)] \in WS THEN rstrip(SubSeq(s, 1, Len(s) - 1)) ELSE s

\* str.strip()
strip(s) == rstrip(lstrip(s))

\* Python's  needle in hay  on two strings: a contiguous occurrence.
StrIn(needle, hay) ==
    \E i \in 1..(Len(hay) - Len(needle) + 1) : SubSeq(hay, i, i + Len(needle) - 1) = needle

\* Python's  x in list .
ListIn(x, list) == \E i \in 1..Len(list) : list[i] = x

\* str.lower(), chunk by chunk.
LowerChunk(c) == IF c = "Qwen" THEN "qwen" ELSE c

lower(s) == [i \in 1..Len(s) |-> LowerChunk(s[i])]

\* An optional string (a header that may be absent, Python's None).
None == [present |-> FALSE, val |-> <<>>]

Some(s) == [present |-> TRUE, val |-> s]

\* Python truthiness of an optional string: None and "" are falsy.
Truthy(h) == h.present /\ h.val # <<>>

\* ------------------------------------------------------- the allowlist files
\* A path on disk holds no file, a file that open() cannot read (permission
\* denied, or the path is a directory), or a readable file with its lines.
Missing == [kind |-> "missing", lines |-> <<>>]

Unreadable == [kind |-> "unreadable", lines |-> <<>>]

Readable(lines) == [kind |-> "file", lines |-> lines]

SeqsUpTo(S, n) == UNION {[1..k -> S] : k \in 0..n}

\* Client addresses and API keys that occur.
Loopback4 == <<"127.0.0.1">>

Loopback6 == <<"::1">>

IpA == <<"203.0.113.5">>

IpB == <<"198.51.100.7">>

KeyA == <<"sk-alpha">>

KeyB == <<"sk-beta">>

\* Lines an operator may put in a file: an entry padded with blanks and ended
\* by the line terminator, and a blank line.
PaddedLine(entry) == <<" ">> \o entry \o <<" ", "\n">>

BlankLine == <<" ", "\n">>

WhitelistLines == {PaddedLine(IpA), BlankLine}

KeyLines == {PaddedLine(KeyA), BlankLine}

FileStates(lines) == {Missing, Unreadable} \cup {Readable(c) : c \in SeqsUpTo(lines, MaxLines)}

\* load_keys with the strip of the kept lines left out.
load_keys_unstripped(file) ==
    IF file.kind = "missing"
    THEN [exc |-> "none", val |-> <<>>]
    ELSE IF file.kind = "unreadable"
    THEN [exc |-> "OSError", val |-> <<>>]
    ELSE [exc |-> "none", val |-> SelectSeq(file.lines, LAMBDA l : strip(l) # <<>>)]

\* auth.py load_keys: the list of stripped lines that are not blank; [] when
\* open() raises FileNotFoundError; any other OSError of open() is not caught
\* and escapes to the caller.
load_keys(file) ==
    IF file.kind = "missing"
    THEN [exc |-> "none", val |-> <<>>]
    ELSE IF file.kind = "unreadable"
    THEN [exc |-> "OSError", val |-> <<>>]
    ELSE LET kept == SelectSeq(file.lines, LAMBDA l : strip(l) # <<>>)
         IN [exc |-> "none", val |-> [i \in 1..Len(kept) |-> strip(kept[i])]]

\* Membership of an optional string in a list of strings (None equals no str).
OptIn(x, list) == x.present /\ ListIn(x.val, list)

\* auth.py verify_api_key
verify_api_key(api_key, keys_file) ==
    LET valid_keys == load_keys(keys_file)
    IN IF valid_keys.exc # "none"
       THEN [exc |-> valid_keys.exc, val |-> FALSE]
       ELSE [exc |-> "none", val |-> OptIn(api_key, valid_keys.val)]

\* is_whitelisted with the loopback exemption not tied to DEV_MODE.
is_whitelisted_always_loopback(ip, dev_mode, whitelist_file) ==
    IF ip \in {Loopback4, Loopback6}
    THEN [exc |-> "none", val |-> TRUE]
    ELSE LET whitelist == load_keys(whitelist_file)
         IN IF whitelist.exc # "none"
            THEN [exc |-> whitelist.exc, val |-> FALSE]
            ELSE [exc |-> "none", val |-> ListIn(ip, whitelist.val)]

\* auth.py is_whitelisted
is_whitelisted(ip, dev_mode, whitelist_file) ==
    IF dev_mode /\ ip \in {Loopback4, Loopback6}
    THEN [exc |-> "none", val |-> TRUE]
    ELSE LET whitelist == load_keys(whitelist_file)
         IN IF whitelist.exc # "none"
            THEN [exc |-> whitelist.exc, val |-> FALSE]
            ELSE [exc |-> "none", val |-> ListIn(ip, whitelist.val)]

\* main.py generate_text, the substrings that mark a frontend request
FrontendHosts == {<<"localhost">>, <<"127.0.0.1">>, <<"self-hosted-budget-ai-api.eshaam.co.za">>}

HasFrontendHost(s) == \E h \in FrontendHosts : StrIn(h, s)

\* main.py generate_text, the local is_frontend_request (its truthiness)
is_frontend_request(origin, referer) ==
    \/ Truthy(origin) /\ HasFrontendHost(origin.val)
    \/ Truthy(referer) /\ HasFrontendHost(referer.val)

\* ---------------------------------------------------------------- provider
\* Model identifiers.  NoName is the falsy selector (None or ""), and also
\* stands for an attribute that holds None (no model, no tokenizer loaded).
NoName == <<>>

Gemma3 == <<"google/", "gemma", "-3-270m">>

Gemma2 == <<"google/", "gemma", "-2-2b-it">>

QwenDefault == <<"Qwen", "/", "Qwen", "2-0.5B-Instruct">>

GemmaKey == <<"gemma">>

QwenKey == <<"qwen">>

UnknownModel == <<"unknown-model">>

\* models.py AIModel.__init__: self.available_models
available_models == (GemmaKey :> Gemma2) @@ (QwenKey :> QwenDefault)

\* The name check accepting every name that is not empty.
is_available_nonempty(name) == name # NoName

\* main.py switch_model: the name check of line 106
is_available(name) ==
    name \in DOMAIN available_models \/ \E k \in DOMAIN available_models : available_models[k] = name

\* models.py load_model line 61 and generate_response line 111
is_gemma(name) == StrIn(<<"gemma">>, lower(name))

\* What the calls into huggingface_hub and transformers do during one
\* load_model: each call that is reached either returns (TRUE) or raises
\* (FALSE); a call that is not reached is written FALSE.
ExtOutcomes ==
    {e \in [auth : BOOLEAN, tok : BOOLEAN, mdl : BOOLEAN, fb_mdl : BOOLEAN, fb_tok : BOOLEAN] :
        /\ e.tok => e.auth
        /\ e.mdl => e.tok
        /\ e.fb_mdl => (e.tok /\ ~e.mdl)
        /\ e.fb_tok => e.fb_mdl}

\* load_model falling back to the default model whatever model failed.
load_model_fallback_any(arg, p, ext) ==
    LET name == IF arg # NoName THEN arg ELSE p.model_name
        p1   == [p EXCEPT !.model_name = name]
        p2   == [p1 EXCEPT !.tokenizer = name]
        pf   == [p2 EXCEPT !.model_name = QwenDefault]
    IN IF ~ext.auth \/ ~ext.tok THEN [ok |-> FALSE, p |-> p1, tried |-> <<>>]
       ELSE IF ext.mdl THEN [ok |-> TRUE, p |-> [p2 EXCEPT !.model = name], tried |-> <<name>>]
       ELSE IF ~ext.fb_mdl THEN [ok |-> FALSE, p |-> pf, tried |-> <<name, QwenDefault>>]
       ELSE [ok |-> ext.fb_tok,
             p |-> [pf EXCEPT !.model = QwenDefault,
                              !.tokenizer = IF ext.fb_tok THEN QwenDefault ELSE name],
             tried |-> <<name, QwenDefault>>]

\* models.py AIModel.load_model, on the provider state p = [model_name, model,
\* tokenizer] with the outcomes ext of its external calls: the value returned,
\* the provider state it leaves, and the model identifiers it passed to
\* AutoModelForCausalLM.from_pretrained, in order (lines 50 and 64).
load_model(arg, p, ext) ==
    LET name == IF arg # NoName THEN arg ELSE p.model_name
        p1   == [p EXCEPT !.model_name = name]
        p2   == [p1 EXCEPT !.tokenizer = name]
        pf   == [p2 EXCEPT !.model_name = QwenDefault]
    IN IF ~ext.auth THEN [ok |-> FALSE, p |-> p1, tried |-> <<>>]
       ELSE IF ~ext.tok THEN [ok |-> FALSE, p |-> p1, tried |-> <<>>]
       ELSE IF ext.mdl THEN [ok |-> TRUE, p |-> [p2 EXCEPT !.model = name], tried |-> <<name>>]
       ELSE IF ~is_gemma(name) THEN [ok |-> FALSE, p |-> p2, tried |-> <<name>>]
       ELSE IF ~ext.fb_mdl THEN [ok |-> FALSE, p |-> pf, tried |-> <<name, QwenDefault>>]
       ELSE IF ~ext.fb_tok
       THEN [ok |-> FALSE, p |-> [pf EXCEPT !.model = QwenDefault], tried |-> <<name, QwenDefault>>]
       ELSE [ok |-> TRUE, p |-> [pf EXCEPT !.model = QwenDefault, !.tokenizer = QwenDefault],
             tried |-> <<name, QwenDefault>>]

\* The strings generate_response returns.
ErrResults == {"Error: Failed to load model", "Error: Model failed to load", "Error generating response"}

SorryText == "I'm sorry, I couldn't generate a response."

GeneratedText == "generated text"

\* main.py generate_text line 83
APOLOGY == "I apologize, but your request is taking longer than expected to process."

\* ------------------------------------------------------------------- state
VARIABLES
    DEV_MODE,       \* config.py settings.DEV_MODE, fixed at start-up
    whitelistFile,  \* what is at settings.WHITELIST_FILE
    keysFile,       \* what is at settings.API_KEYS_FILE
    ai_model,       \* models.py ai_model: [model_name, model, tokenizer]
    req,            \* the requests in flight, by connection slot
    loop            \* the slot whose handler blocks the event-loop thread, 0 if none

vars == <<DEV_MODE, whitelistFile, keysFile, ai_model, req, loop>>

\* Connection slots of the server.  Under Spec one request is in flight at a
\* time; the next one arrives once the slot is released.
Slots == {1}

\* A free slot.
IdleReq ==
    [pc |-> "idle", endpoint |-> "none", ip |-> <<>>,
     origin |-> None, referer |-> None, key |-> None, admit |-> "none",
     sel |-> NoName, status |-> 0, raised |-> 0, exc |-> "none", body |-> "none",
     timedOut |-> FALSE, wpc |-> "none", result |-> "none", loads |-> 0, fmt |-> "none"]

\* Inputs of the requests.  Bodies are well formed (FastAPI answers a body
\* that fails GenerateRequest's validation before generate_text is entered).
Endpoints == {"health", "models", "switch", "generate"}

ClientAddrs == {Loopback4, IpA, IpB}

Origins == {None, Some(<<"http://", "localhost", ":5173">>), Some(<<"https://", "evil.example">>)}

Referers == {None, Some(<<"https://", "self-hosted-budget-ai-api.eshaam.co.za", "/">>),
             Some(<<"https://", "evil.example", "/">>)}

ApiKeys == {None, Some(KeyA), Some(KeyB)}

Selectors == {NoName, QwenDefault}

SwitchNames == {GemmaKey, QwenDefault, UnknownModel}

\* models.py line 192: ai_model = AIModel("google/gemma-3-270m")
InitModel == [model_name |-> Gemma3, model |-> NoName, tokenizer |-> NoName]

Init ==
    /\ DEV_MODE \in BOOLEAN
    /\ whitelistFile \in FileStates(WhitelistLines)
    /\ keysFile \in FileStates(KeyLines)
    /\ ai_model = InitModel
    /\ req = [r \in Slots |-> IdleReq]
    /\ loop = 0

Files == <<DEV_MODE, whitelistFile, keysFile>>

\* ----------------------------------------------------------------- answers
\* The status the client receives when an exception leaves the http
\* middleware check_ip_whitelist: the middleware wraps the router and its
\* exception handlers, so nothing converts the exception (an HTTPException
\* included) and the server's error layer answers 500.
middleware_exception_status(raised) == 500

\* The status the client receives when a route handler raises
\* HTTPException(status_code): the router's handler answers with that code.
handler_exception_status(raised) == raised

\* The except branch answering with whatever the provider call produced.
timeout_response_passthrough(result) == [status |-> 200, body |-> result]

\* main.py generate_text lines 81-83: the answer after asyncio.TimeoutError
timeout_response(result) == [status |-> 200, body |-> APOLOGY]

\* main.py generate_text lines 79-80: the answer when the provider returned
success_response(result) == [status |-> 200, body |-> result]

Answer(q, status, raised, exc, body) ==
    [q EXCEPT !.pc = "done", !.status = status, !.raised = raised, !.exc = exc, !.body = body]

\* ----------------------------------------------------------------- operator
\* The operator edits, replaces, removes or locks an allowlist file.
EditWhitelist ==
    /\ whitelistFile' \in FileStates(WhitelistLines) \ {whitelistFile}
    /\ UNCHANGED <<DEV_MODE, keysFile, ai_model, req, loop>>

EditKeys ==
    /\ keysFile' \in FileStates(KeyLines) \ {keysFile}
    /\ UNCHANGED <<DEV_MODE, whitelistFile, ai_model, req, loop>>

\* --------------------------------------------------------------- middleware
\* main.py check_ip_whitelist: a request for some endpoint arrives from ip
\* on slot r and the middleware runs on the event loop.
check_ip_whitelist(r) ==
    /\ loop = 0
    /\ req[r].pc = "idle"
    /\ \E endpoint \in Endpoints, ip \in ClientAddrs :
         LET q  == [req[r] EXCEPT !.endpoint = endpoint, !.ip = ip]
             ok == is_whitelisted(ip, DEV_MODE, whitelistFile)
         IN req' = [req EXCEPT ![r] =
                IF ok.exc # "none"
                THEN Answer(q, middleware_exception_status(0), 0, ok.exc, "Internal Server Error")
                ELSE IF ~ok.val
                THEN Answer(q, middleware_exception_status(403), 403, "HTTPException", "Internal Server Error")
                ELSE [q EXCEPT !.pc = "routed"]]
    /\ UNCHANGED <<Files, ai_model, loop>>

\* ------------------------------------------------------------ plain routes
\* health_check reporting on the provider: an error while no model is loaded.
health_check_needs_model(r) ==
    /\ loop = 0
    /\ req[r].pc = "routed" /\ req[r].endpoint = "health"
    /\ req' = [req EXCEPT ![r] =
                 IF ai_model.model = NoName
                 THEN Answer([@ EXCEPT !.ip = <<>>], 503, 0, "none", "unhealthy")
                 ELSE Answer([@ EXCEPT !.ip = <<>>], 200, 0, "none", "healthy")]
    /\ UNCHANGED <<Files, ai_model, loop>>

\* main.py health_check
health_check(r) ==
    /\ loop = 0
    /\ req[r].pc = "routed" /\ req[r].endpoint = "health"
    /\ req' = [req EXCEPT ![r] = Answer([@ EXCEPT !.ip = <<>>], 200, 0, "none", "healthy")]
    /\ UNCHANGED <<Files, ai_model, loop>>

\* main.py get_models
get_models(r) ==
    /\ loop = 0
    /\ req[r].pc = "routed" /\ req[r].endpoint = "models"
    /\ req' = [req EXCEPT ![r] =
                 Answer([@ EXCEPT !.ip = <<>>, !.sel = ai_model.model_name], 200, 0, "none", "models")]
    /\ UNCHANGED <<Files, ai_model, loop>>

\* ---------------------------------------------------------------- generate
\* The key gate waived once a model has been loaded by an earlier request.
generate_gate_warm(origin, referer, api_key, keys_file) ==
    IF is_frontend_request(origin, referer) \/ ai_model.model # NoName THEN "frontend"
    ELSE LET v == verify_api_key(api_key, keys_file)
         IN IF v.exc # "none" THEN "error"
            ELSE IF v.val THEN "key" ELSE "unauthorized"

\* main.py generate_text lines 42-63: the key gate.  The outcome for the
\* headers read from the request: admitted as a frontend request, admitted by
\* key, HTTPException(401), or the OSError of load_keys, which the handler's
\* except Exception turns into HTTPException(500).
generate_gate(origin, referer, api_key, keys_file) ==
    IF is_frontend_request(origin, referer) THEN "frontend"
    ELSE LET v == verify_api_key(api_key, keys_file)
         IN IF v.exc # "none" THEN "error"
            ELSE IF v.val THEN "key" ELSE "unauthorized"

generate_text(r) ==
    /\ loop = 0
    /\ req[r].pc = "routed" /\ req[r].endpoint = "generate"
    /\ \E origin \in Origins, referer \in Referers, api_key \in ApiKeys :
         LET q == [req[r] EXCEPT !.ip = <<>>, !.origin = origin, !.referer = referer, !.key = api_key]
             g == generate_gate(origin, referer, api_key, keysFile)
         IN req' = [req EXCEPT ![r] =
                CASE g = "unauthorized" ->
                       Answer(q, handler_exception_status(401), 401, "HTTPException", "Invalid API key")
                  [] g = "error" ->
                       Answer(q, handler_exception_status(500), 500, "OSError", "Internal server error")
                  [] OTHER -> [q EXCEPT !.pc = "gated", !.admit = g]]
    /\ UNCHANGED <<Files, ai_model, loop>>

\* run_in_executor on one executor shared by all requests: the call waits
\* while another request's call occupies the single worker.
run_in_executor_shared(r) ==
    /\ loop = 0
    /\ req[r].pc = "gated"
    /\ \A s \in DOMAIN req \ {r} : req[s].wpc \in {"none", "returned"}
    /\ \E model \in Selectors :
         req' = [req EXCEPT ![r] =
                   [@ EXCEPT !.pc = "awaiting", !.origin = None, !.referer = None, !.key = None,
                             !.admit = "none", !.sel = model, !.wpc = "switch"]]
    /\ UNCHANGED <<Files, ai_model, loop>>

\* main.py generate_text lines 71-78: the call is handed to a fresh
\* single-worker executor and the handler awaits it with the 600 s ceiling.
\* The headers are not read again.
run_in_executor(r) ==
    /\ loop = 0
    /\ req[r].pc = "gated"
    /\ \E model \in Selectors :
         req' = [req EXCEPT ![r] =
                   [@ EXCEPT !.pc = "awaiting", !.origin = None, !.referer = None, !.key = None,
                             !.admit = "none", !.sel = model, !.wpc = "switch"]]
    /\ UNCHANGED <<Files, ai_model, loop>>

\* main.py generate_text lines 79-80: the awaited call returned in time.
generate_text_return(r) ==
    /\ loop = 0
    /\ req[r].pc = "awaiting" /\ req[r].wpc = "returned"
    /\ LET a == success_response(req[r].result)
       IN req' = [req EXCEPT ![r] = Answer(@, a.status, 0, "none", a.body)]
    /\ UNCHANGED <<Files, ai_model, loop>>

\* main.py generate_text lines 81-83: the ceiling elapses before the call
\* returns.  The handler takes the except branch; its return leaves the
\* with-block of line 72, whose exit is executor.shutdown(wait=True): the
\* event-loop thread joins the worker thread.
generate_text_timeout(r) ==
    /\ loop = 0
    /\ req[r].pc = "awaiting" /\ req[r].wpc # "returned"
    /\ req' = [req EXCEPT ![r] = [@ EXCEPT !.pc = "shutdown", !.timedOut = TRUE]]
    /\ loop' = r
    /\ UNCHANGED <<Files, ai_model>>

\* The worker thread ended: shutdown(wait=True) returns and the handler's
\* answer is sent.
executor_shutdown(r) ==
    /\ loop = r
    /\ req[r].pc = "shutdown" /\ req[r].wpc = "returned"
    /\ LET a == timeout_response(req[r].result)
       IN req' = [req EXCEPT ![r] = Answer(@, a.status, 0, "none", a.body)]
    /\ loop' = 0
    /\ UNCHANGED <<Files, ai_model>>

\* ------------------------------------------------------------------ switch
\* main.py switch_model lines 112-115: the answer once generate_response has
\* returned its string, whatever the string is.
switch_response(result) == [status |-> 200, body |-> "Successfully switched"]

\* main.py switch_model lines 103-111: the name check, then the call of
\* generate_response("Hello", model_name) made by the coroutine itself, on
\* the event-loop thread.
switch_model(r) ==
    /\ loop = 0
    /\ req[r].pc = "routed" /\ req[r].endpoint = "switch"
    /\ \E model_name \in SwitchNames :
         LET q == [req[r] EXCEPT !.ip = <<>>, !.sel = model_name]
         IN IF ~is_available(model_name)
            THEN /\ req' = [req EXCEPT ![r] =
                     Answer(q, handler_exception_status(400), 400, "HTTPException", "Model not available")]
                 /\ loop' = loop
            ELSE /\ req' = [req EXCEPT ![r] = [q EXCEPT !.pc = "blocked", !.wpc = "switch"]]
                 /\ loop' = r
    /\ UNCHANGED <<Files, ai_model>>

\* main.py switch_model lines 112-115
switch_model_return(r) ==
    /\ loop = r
    /\ req[r].pc = "blocked" /\ req[r].wpc = "returned"
    /\ LET a == switch_response(req[r].result)
       IN req' = [req EXCEPT ![r] = Answer(@, a.status, 0, "none", a.body)]
    /\ loop' = 0
    /\ UNCHANGED <<Files, ai_model>>

\* ------------------------------------------------------- generate_response
\* The thread that runs generate_response for slot r: the executor's worker
\* (generate, also after the handler timed out) or the event loop (switch).
Running(r) == req[r].pc \in {"awaiting", "shutdown", "blocked"}

Returned(q, result) == [q EXCEPT !.wpc = "returned", !.result = result]

\* models.py generate_response lines 95-99
gr_switch(r) ==
    /\ Running(r) /\ req[r].wpc = "switch"
    /\ IF req[r].sel # NoName /\ req[r].sel # ai_model.model_name
       THEN \E ext \in ExtOutcomes :
              LET res == load_model(req[r].sel, ai_model, ext)
                  q   == [req[r] EXCEPT !.loads = @ + 1]
              IN /\ ai_model' = res.p
                 /\ req' = [req EXCEPT ![r] =
                        IF res.ok THEN [q EXCEPT !.wpc = "ensure"]
                        ELSE Returned(q, "Error: Failed to load model")]
       ELSE /\ req' = [req EXCEPT ![r] = [@ EXCEPT !.wpc = "ensure"]]
            /\ ai_model' = ai_model
    /\ UNCHANGED <<Files, loop>>

\* models.py generate_response lines 103-106
gr_ensure(r) ==
    /\ Running(r) /\ req[r].wpc = "ensure"
    /\ IF ai_model.model = NoName \/ ai_model.tokenizer = NoName
       THEN \E ext \in ExtOutcomes :
              LET res == load_model(NoName, ai_model, ext)
                  q   == [req[r] EXCEPT !.loads = @ + 1]
              IN /\ ai_model' = res.p
                 /\ req' = [req EXCEPT ![r] =
                        IF res.ok THEN [q EXCEPT !.wpc = "format"]
                        ELSE Returned(q, "Error: Model failed to load")]
       ELSE /\ req' = [req EXCEPT ![r] = [@ EXCEPT !.wpc = "format"]]
            /\ ai_model' = ai_model
    /\ UNCHANGED <<Files, loop>>

\* models.py generate_response lines 110-114: the prompt template, chosen by
\* the model name of this moment and kept in the local formatted_prompt.
gr_format(r) ==
    /\ Running(r) /\ req[r].wpc = "format"
    /\ req' = [req EXCEPT ![r] =
                 [@ EXCEPT !.wpc = "tokenize",
                           !.fmt = IF is_gemma(ai_model.model_name) THEN "gemma" ELSE "qwen"]]
    /\ UNCHANGED <<Files, ai_model, loop>>

\* models.py generate_response lines 116-125: the tokenizer call returns or
\* raises; line 184 turns what it raises into an error string.
gr_tokenize(r) ==
    /\ Running(r) /\ req[r].wpc = "tokenize"
    /\ \E ok \in BOOLEAN :
         req' = [req EXCEPT ![r] =
                   IF ok /\ ai_model.tokenizer # NoName THEN [@ EXCEPT !.wpc = "generate"]
                   ELSE Returned(@, "Error generating response")]
    /\ UNCHANGED <<Files, ai_model, loop>>

\* models.py generate_response lines 130-145: model.generate returns or
\* raises (or takes any time: the step need never be taken).
gr_generate(r) ==
    /\ Running(r) /\ req[r].wpc = "generate"
    /\ \E ok \in BOOLEAN :
         req' = [req EXCEPT ![r] =
                   IF ok /\ ai_model.model # NoName THEN [@ EXCEPT !.wpc = "decode"]
                   ELSE Returned(@, "Error generating response")]
    /\ UNCHANGED <<Files, ai_model, loop>>

\* models.py generate_response lines 150-182: the decoded text, or the fixed
\* sentence when nothing was generated or decoding failed twice.
gr_decode(r) ==
    /\ Running(r) /\ req[r].wpc = "decode"
    /\ \E text \in {GeneratedText, SorryText} :
         req' = [req EXCEPT ![r] = Returned(@, text)]
    /\ UNCHANGED <<Files, ai_model, loop>>

\* The answer has been sent and the connection slot is free again.
Release(r) ==
    /\ req[r].pc = "done"
    /\ req' = [req EXCEPT ![r] = IdleReq]
    /\ UNCHANGED <<Files, ai_model, loop>>

\* The steps of the server: the middleware, the handlers and the provider calls.
Serve ==
    \/ \E r \in DOMAIN req : check_ip_whitelist(r)
    \/ \E r \in DOMAIN req : health_check(r)
    \/ \E r \in DOMAIN req : get_models(r)
    \/ \E r \in DOMAIN req : generate_text(r)
    \/ \E r \in DOMAIN req : run_in_executor(r)
    \/ \E r \in DOMAIN req : generate_text_return(r)
    \/ \E r \in DOMAIN req : generate_text_timeout(r)
    \/ \E r \in DOMAIN req : executor_shutdown(r)
    \/ \E r \in DOMAIN req : switch_model(r)
    \/ \E r \in DOMAIN req : switch_model_return(r)
    \/ \E r \in DOMAIN req : gr_switch(r)
    \/ \E r \in DOMAIN req : gr_ensure(r)
    \/ \E r \in DOMAIN req : gr_format(r)
    \/ \E r \in DOMAIN req : gr_tokenize(r)
    \/ \E r \in DOMAIN req : gr_generate(r)
    \/ \E r \in DOMAIN req : gr_decode(r)
    \/ \E r \in DOMAIN req : Release(r)

Next ==
    \/ EditWhitelist
    \/ EditKeys
    \/ Serve

Spec == Init /\ [][Next]_vars

\* Two requests in flight at once, with the allowlist files left alone:
\* dev-mode on, no whitelist file, one key on file.
ConcSlots == {1, 2}

InitConc ==
    /\ DEV_MODE = TRUE
    /\ whitelistFile = Missing
    /\ keysFile = Readable(<<PaddedLine(KeyA)>>)
    /\ ai_model = InitModel
    /\ req = [r \in ConcSlots |-> IdleReq]
    /\ loop = 0

SpecConc == InitConc /\ [][Serve]_vars

\* ================================================================== claims
\* The entries of an allowlist file as the specification words them: the
\* trimmed lines that are not blank; none when there is no readable file.
Entries(file) ==
    IF file.kind = "file"
    THEN {strip(file.lines[i]) : i \in DOMAIN file.lines} \ {<<>>}
    ELSE {}

ListSet(list) == {list[i] : i \in DOMAIN list}

AllAddrs == ClientAddrs \cup {Loopback6}

\* The step in which the middleware handles a request arriving on slot r.
MiddlewareStep(r) == req[r].pc = "idle" /\ req'[r].pc # "idle"

\* The step in which generate_text runs its key gate for slot r.
GateStep(r) == req[r].pc = "routed" /\ req[r].endpoint = "generate" /\ req'[r].pc # "routed"

\* The step in which switch_model checks the name for slot r.
SwitchStep(r) == req[r].pc = "routed" /\ req[r].endpoint = "switch" /\ req'[r].pc # "routed"

\* C1: a request whose address fails is_whitelisted is answered 403
\* (forbidden), whatever else it carries, and reaches no handler, key check or
\* provider call.
C1_RejectedIsForbidden ==
    \A r \in DOMAIN req :
        req[r].raised = 403 =>
            /\ req[r].status = 403
            /\ req[r].pc = "done" /\ req[r].wpc = "none" /\ req[r].loads = 0

\* C2: a generation request from an allowlisted address is forwarded to the
\* dispatcher exactly when Origin or Referer holds a trusted substring or the
\* X-API-Key is an entry of the key file; otherwise it is answered 401 and the
\* provider is not called.
C2_GateDecision ==
    [][\A r \in DOMAIN req :
         GateStep(r) =>
            LET q     == req'[r]
                admit == \/ (q.origin.present /\ HasFrontendHost(q.origin.val))
                         \/ (q.referer.present /\ HasFrontendHost(q.referer.val))
                         \/ (q.key.present /\ q.key.val \in Entries(keysFile))
            IN /\ (q.pc = "gated") <=> admit
               /\ ~admit => q.pc = "done" /\ q.status = 401 /\ q.wpc = "none" /\ q.loads = 0]_vars

\* C3: is_whitelisted(ip) is true exactly when (dev-mode and ip is a loopback
\* literal) or ip is an entry of the whitelist file; with a readable or missing
\* file every other address gets False.
C3_IsWhitelisted ==
    \A ip \in AllAddrs :
        LET res    == is_whitelisted(ip, DEV_MODE, whitelistFile)
            listed == ip \in Entries(whitelistFile)
            dev    == DEV_MODE /\ ip \in {Loopback4, Loopback6}
        IN /\ (res.exc = "none" /\ res.val) <=> (dev \/ listed)
           /\ whitelistFile.kind # "unreadable" => res.exc = "none"

\* C3 witness: with dev-mode off a request from the listed address passed the
\* middleware, and with dev-mode on and no whitelist file a loopback request did.
C3_Witness ==
    \E r \in DOMAIN req :
        /\ req[r].pc = "routed"
        /\ \/ ~DEV_MODE /\ req[r].ip = IpA /\ IpA \in Entries(whitelistFile)
           \/ DEV_MODE /\ req[r].ip = Loopback4 /\ whitelistFile = Missing

\* C4: each check reads the file as it is at that moment: load_keys returns the
\* trimmed non-blank lines of the file now on disk (none when it is missing),
\* the middleware's and the key gate's outcome are decided by the files' current
\* contents, and no request step writes a file.
C4_ReadAtCheck ==
    /\ [](\A f \in {whitelistFile, keysFile} :
            /\ load_keys(f).exc = "none" => ListSet(load_keys(f).val) = Entries(f)
            /\ f = Missing => load_keys(f) = [exc |-> "none", val |-> <<>>])
    /\ [][/\ \A r \in DOMAIN req :
               /\ MiddlewareStep(r) =>
                    (req'[r].pc = "routed" <=>
                        \/ DEV_MODE /\ req'[r].ip \in {Loopback4, Loopback6}
                        \/ req'[r].ip \in Entries(whitelistFile))
               /\ (GateStep(r) /\ ~is_frontend_request(req'[r].origin, req'[r].referer)) =>
                    (req'[r].admit = "key" <=>
                        (req'[r].key.present /\ req'[r].key.val \in Entries(keysFile)))
          /\ (whitelistFile' # whitelistFile \/ keysFile' # keysFile) => req' = req]_vars

\* C4 witness: a request was admitted by a key that the key file holds as a
\* padded line.
C4_Witness ==
    \E r \in DOMAIN req :
        /\ req[r].admit = "key" /\ req[r].key = Some(KeyA)
        /\ keysFile = Readable(<<PaddedLine(KeyA)>>)

\* C5: an allowlist file that exists but cannot be read is treated as empty:
\* the check returns False and the request gets the normal denial; no I/O
\* error escapes a check.
C5_UnreadableIsEmpty ==
    \A r \in DOMAIN req :
        req[r].pc = "done" =>
            /\ req[r].exc # "OSError"
            /\ req[r].ip # <<>> => req[r].raised = 403

\* C6: a generation request whose provider call had not returned when the
\* ceiling elapsed is answered, if at all, with status 200 and the apology
\* text, never with an error status or the provider's text.
C6_TimeoutIsApology ==
    \A r \in DOMAIN req :
        req[r].timedOut =>
            \/ req[r].pc = "shutdown" /\ req[r].status = 0
            \/ req[r].pc = "done" /\ req[r].status = 200 /\ req[r].body = APOLOGY

\* C6 witness: a timed-out request has been answered.
C6_Witness == \E r \in DOMAIN req : req[r].timedOut /\ req[r].pc = "done"

\* C7: the event-loop thread never waits for a provider call: whenever a
\* handler holds the thread, no provider call of it is still running.
C7_LoopNeverWaitsForProvider ==
    \A r \in DOMAIN req : loop = r => req[r].wpc = "returned"

\* C8: a provider failure other than the timeout (load failure, generation
\* error) gives the generation request a 500 answer, never a success status.
C8_ProviderFailureIs500 ==
    \A r \in DOMAIN req :
        (req[r].endpoint = "generate" /\ req[r].pc = "done"
            /\ req[r].result \in ErrResults /\ ~req[r].timedOut) => req[r].status = 500

\* C9: a switch request whose name is neither a key nor a value of
\* available_models is answered 400 by the handler with no provider call made
\* for it (no load, no generate), and the step leaves the provider as it was.
C9_UnknownModelRejected ==
    /\ [](\A r \in DOMAIN req :
            (req[r].endpoint = "switch" /\ req[r].sel # NoName
                /\ req[r].sel \notin DOMAIN available_models
                /\ \A k \in DOMAIN available_models : available_models[k] # req[r].sel) =>
              /\ req[r].pc = "done" /\ req[r].status = 400
              /\ req[r].wpc = "none" /\ req[r].loads = 0 /\ req[r].result = "none"
              /\ loop # r)
    /\ [][\A r \in DOMAIN req :
            (SwitchStep(r) /\ req'[r].status = 400) => ai_model' = ai_model]_vars

\* C9 witness: a switch request for unknown-model was answered 400.
C9_Witness ==
    \E r \in DOMAIN req :
        req[r].endpoint = "switch" /\ req[r].sel = UnknownModel /\ req[r].status = 400

\* C10: a switch request with a recognized name is answered 200 only when the
\* load succeeded, and 500 whenever the load of the requested model failed.
C10_SwitchLoadFailureIs500 ==
    \A r \in DOMAIN req :
        (req[r].endpoint = "switch" /\ req[r].pc = "done" /\ req[r].result \in ErrResults)
            => req[r].status = 500

\* C11: GET /api/health always succeeds, whatever the caller's address, its
\* headers and the allowlist files hold.
C11_HealthAlwaysSucceeds ==
    \A r \in DOMAIN req :
        (req[r].endpoint = "health" /\ req[r].pc = "done") =>
            req[r].status = 200 /\ req[r].body = "healthy"

\* C11 amended: GET /api/health succeeds for every request whose address
\* passes the allowlist check, whatever its headers and the key file hold; a
\* request whose address does not pass is ended by the middleware before
\* health_check runs.
C11_HealthSucceedsPastAllowlist ==
    /\ [](\A r \in DOMAIN req :
            req[r].endpoint = "health" =>
                \/ req[r].pc = "routed" /\ req[r].ip # <<>>
                \/ req[r].pc = "done" /\ req[r].ip # <<>> /\ req[r].exc # "none"
                \/ /\ req[r].pc = "done" /\ req[r].ip = <<>>
                   /\ req[r].status = 200 /\ req[r].body = "healthy" /\ req[r].exc = "none")
    /\ [][\A r \in DOMAIN req :
            (MiddlewareStep(r) /\ req'[r].endpoint = "health") =>
                (req'[r].pc = "routed" <=>
                    \/ DEV_MODE /\ req'[r].ip \in {Loopback4, Loopback6}
                    \/ req'[r].ip \in Entries(whitelistFile))]_vars

\* C11 witness: with dev-mode off and an unreadable key file a health request
\* was answered 200.
C11_Witness ==
    \E r \in DOMAIN req :
        /\ req[r].endpoint = "health" /\ req[r].status = 200
        /\ ~DEV_MODE /\ keysFile = Unreadable

\* The admission decision as a function of the request and the files alone.
AddrAdmitted(ip, dev_mode, whitelist_file) ==
    (dev_mode /\ ip \in {Loopback4, Loopback6}) \/ ip \in Entries(whitelist_file)

KeyGateAdmitted(origin, referer, api_key, keys_file) ==
    \/ origin.present /\ HasFrontendHost(origin.val)
    \/ referer.present /\ HasFrontendHost(referer.val)
    \/ api_key.present /\ api_key.val \in Entries(keys_file)

\* C12: no request mutates shared state: every step of handling a request
\* leaves the allowlist files, the dev-mode flag and the provider's state as
\* they were.
C12_NoRequestMutatesSharedState ==
    [][/\ ai_model' = ai_model
       /\ req' # req => UNCHANGED Files]_vars

\* C12 amended: no request mutates the state the admission decision reads (the
\* two allowlist files and the dev-mode flag), and the decision for a request
\* is a function of its address, Origin, Referer, X-API-Key and those alone,
\* the same whatever earlier requests did; requests do change the provider's
\* model name, model and tokenizer.
C12_AdmissionReadsOnlyItsInputs ==
    [][/\ req' # req => UNCHANGED Files
       /\ \A r \in DOMAIN req :
            /\ MiddlewareStep(r) =>
                 (req'[r].pc = "routed" <=> AddrAdmitted(req'[r].ip, DEV_MODE, whitelistFile))
            /\ GateStep(r) =>
                 (req'[r].pc = "gated" <=>
                     KeyGateAdmitted(req'[r].origin, req'[r].referer, req'[r].key, keysFile))]_vars

\* C12 witness: a request that needs a key was turned away after an earlier
\* request had loaded a model.
C12_Witness ==
    \E r \in DOMAIN req :
        /\ req[r].endpoint = "generate" /\ req[r].status = 401
        /\ ai_model.model # NoName

\* A step of the provider call made for slot r.
ProviderStep(r) ==
    \/ gr_switch(r) \/ gr_ensure(r) \/ gr_format(r)
    \/ gr_tokenize(r) \/ gr_generate(r) \/ gr_decode(r)

\* C13: provider calls are neither serialized nor locked: an admitted
\* generation request is handed to its own executor whatever other calls are
\* active, and a provider call that has not returned can always take its next
\* step, whatever the other requests are doing.
C13_ProviderCallsNotSerialized ==
    \A r \in DOMAIN req :
        /\ (req[r].pc = "gated" /\ loop = 0) => ENABLED run_in_executor(r)
        /\ (req[r].pc \in {"awaiting", "shutdown", "blocked"} /\ req[r].wpc # "returned")
              => ENABLED ProviderStep(r)

\* C13 witness: two generation requests have provider calls active at once,
\* and the one that asked for the Qwen model has changed the shared model name
\* after the other formatted its prompt for a gemma model and before that one
\* tokenizes or generates.
C13_Witness ==
    \E r, s \in DOMAIN req :
        /\ r # s
        /\ req[r].pc = "awaiting" /\ req[s].pc = "awaiting"
        /\ req[r].wpc \in {"tokenize", "generate"} /\ req[r].fmt = "gemma"
        /\ req[s].wpc \in {"ensure", "format", "tokenize", "generate", "decode"}
        /\ req[s].sel = QwenDefault
        /\ ~is_gemma(ai_model.model_name)
        /\ ai_model.model = QwenDefault /\ ai_model.tokenizer = QwenDefault

\* C14: with requests run one at a time, whenever a model is loaded the
\* provider's model name, model and tokenizer belong to the same identifier.
C14_NameModelTokenizerAgree ==
    ai_model.model # NoName =>
        /\ ai_model.model = ai_model.model_name
        /\ ai_model.tokenizer = ai_model.model_name

\* The provider states load_model can be called in.
ProviderStates ==
    LET Names == {NoName, Gemma3, GemmaKey, QwenDefault}
    IN [model_name : Names \ {NoName}, model : Names, tokenizer : Names]

\* One load_model call, for every argument a request can pass and every outcome
\* of the loads: at most two attempts, the second of the Qwen default and only
\* after a gemma model failed, and its outcome is the call's outcome.
LoadModelOneShot ==
    \A arg \in Selectors \cup {GemmaKey}, p \in ProviderStates, ext \in ExtOutcomes :
        LET res  == load_model(arg, p, ext)
            name == IF arg # NoName THEN arg ELSE p.model_name
            n    == Len(res.tried)
        IN /\ n <= 2
           /\ n >= 1 => res.tried[1] = name
           /\ n = 2 => /\ is_gemma(name) /\ ~ext.mdl
                       /\ res.tried[2] = QwenDefault
                       /\ res.p.model_name = QwenDefault
                       /\ res.ok <=> (ext.fb_mdl /\ ext.fb_tok)
           /\ (n = 1 /\ ~ext.mdl) => (~is_gemma(name) /\ ~res.ok)
           /\ (n = 2 /\ res.ok) =>
                 res.p = [model_name |-> QwenDefault, model |-> QwenDefault, tokenizer |-> QwenDefault]

\* C15: one generate_response call invokes load_model at most once, and one
\* load_model makes at most one more load attempt after the first: of the
\* Qwen default, and only after a model of the gemma family failed; a failed
\* fallback, or a failed model of another family, ends in failure; after a
\* successful fallback the model name is the Qwen default.
C15_OneShotFallback ==
    /\ ai_model \in ProviderStates
    /\ \A r \in DOMAIN req :
         /\ req[r].loads <= 1
         /\ (req[r].sel = GemmaKey /\ req[r].loads = 1 /\ req[r].wpc = "ensure") =>
               ai_model.model_name \in {GemmaKey, QwenDefault}
    /\ LoadModelOneShot

\* C15 witness: a request that named gemma loaded once, the gemma load failed
\* and the fallback succeeded: the model name is now the Qwen default.
C15_Witness ==
    \E r \in DOMAIN req :
        /\ req[r].sel = GemmaKey /\ req[r].loads = 1 /\ req[r].wpc = "ensure"
        /\ ai_model = [model_name |-> QwenDefault, model |-> QwenDefault, tokenizer |-> QwenDefault]

====
